---- MODULE Spec2Model ----
(***************************************************************************)
(* Model of accord (src/src/main.rs): the gateway event loop of main, the  *)
(* per-event task handle_event, the raccord schema conversions, the        *)
(* command extractor Client::parse_command and the Sendable URLs.          *)
(*                                                                         *)
(* Option<T> is modelled as a sequence of length 0 (None) or 1 (Some(v)),  *)
(* so that Some(empty vector) and None are different values.               *)
(***************************************************************************)
EXTENDS Integers, Sequences, FiniteSets, TLC

\* ------------------------------------------------------------------ bounds

\* Number of events the gateway stream delivers in one behaviour.
MaxEvents == 2
\* Longest message content explored for the command extractor on its own.
MaxLen == 3

\* ------------------------------------------------------------------ values

None == <<>>
Some(v) == <<v>>

\* Characters message contents are made of.
Chars == {"a", "b", "c", "x"}

\* ACCORD_TARGET, the base address of the downstream target.
target_base == "http://target"

\* The two command patterns explored for ACCORD_COMMAND_REGEX.
RxAlt == "(a)|(b)|c"
RxOpt == "(a)(b)?"
Regexes == {None, Some(RxAlt), Some(RxOpt)}

\* Contents carried by the MessageCreate events of the stream.
StreamContents == {<<"x">>, <<"b", "x", "a">>}

\* twilight's RoleId(u64) newtype, and its field .0
RoleId(n) == <<n>>
Id0(id) == id[1]

\* The membership records (PartialMember) a MessageCreate event may carry.
Members == {[roles |-> <<RoleId(2), RoleId(1)>>]}

GuildIds == {7}
ChannelIds == {3}
OtherKinds == {"MessageUpdate", "MessageDelete", "MessageDeleteBulk"}

\* The events the gateway may deliver as the n-th element of the stream.
MessageCreateEvents(n) ==
    [kind : {"MessageCreate"}, id : {n},
     guild_id : {None} \cup {Some(g) : g \in GuildIds},
     channel_id : ChannelIds,
     author : {[id |-> 9, name |-> "u", bot |-> FALSE]},
     member : {None} \cup {Some(m) : m \in Members},
     content : StreamContents]

GatewayEvents(n) ==
    MessageCreateEvents(n)
      \cup {[kind |-> "ShardConnected"]}
      \cup {[kind |-> k] : k \in OtherKinds}

\* ------------------------------------------------------------------ schema types

\* impl From<&DisUser> for User: field copy, roles unset.
User_from(dis) ==
    [id |-> dis.id, name |-> dis.name, bot |-> dis.bot, roles |-> None]

RECURSIVE MapId0(_)
MapId0(roles) ==
    IF roles = <<>> THEN <<>>
    ELSE <<Id0(Head(roles))>> \o MapId0(Tail(roles))

\* User::merge_partial_member: roles = Some(the record's role ids, in order).
merge_partial_member(user, mem) ==
    [user EXCEPT !.roles = Some(MapId0(mem.roles))]

\* The author both conversions compute first: User::from, then the merge
\* when the event carries a membership record.
MergedAuthor(dis) ==
    IF dis.member # None
        THEN merge_partial_member(User_from(dis.author), dis.member[1])
        ELSE User_from(dis.author)

\* dis.guild_id.unwrap() in ServerMessage::from panics on None.
ServerMessage_from_panics(dis) == dis.guild_id = None

\* impl From<&DisMessage> for ServerMessage.  The merged author is computed
\* into a local and the struct's author field is built again from dis.author.
ServerMessage_from(dis) ==
    LET author == MergedAuthor(dis)
    IN  [type |-> "ServerMessage",
         id |-> dis.id,
         server_id |-> dis.guild_id[1],
         channel_id |-> dis.channel_id,
         author |-> User_from(dis.author),
         content |-> dis.content]

\* impl From<&DisMessage> for DirectMessage.
DirectMessage_from(dis) ==
    LET author == MergedAuthor(dis)
    IN  [type |-> "DirectMessage",
         id |-> dis.id,
         channel_id |-> dis.channel_id,
         author |-> author,
         content |-> dis.content]

\* ------------------------------------------------------------------ command extractor

\* Regex::captures_iter for the two patterns: the successive non-overlapping
\* leftmost matches from position i on, each a Captures value listing group 0
\* and then every capture group as Some(matched text) or None.
RECURSIVE captures_from(_, _, _)
captures_from(rx, content, i) ==
    IF i > Len(content) THEN <<>>
    ELSE IF rx = RxAlt THEN
        CASE content[i] = "a" ->
                 <<<<Some("a"), Some("a"), None>>>> \o captures_from(rx, content, i + 1)
          [] content[i] = "b" ->
                 <<<<Some("b"), None, Some("b")>>>> \o captures_from(rx, content, i + 1)
          [] content[i] = "c" ->
                 <<<<Some("c"), None, None>>>> \o captures_from(rx, content, i + 1)
          [] OTHER -> captures_from(rx, content, i + 1)
    ELSE \* RxOpt
        IF content[i] = "a"
            THEN IF i + 1 <= Len(content) /\ content[i + 1] = "b"
                     THEN <<<<Some("ab"), Some("a"), Some("b")>>>>
                              \o captures_from(rx, content, i + 2)
                     ELSE <<<<Some("a"), Some("a"), None>>>>
                              \o captures_from(rx, content, i + 1)
            ELSE captures_from(rx, content, i + 1)

captures_iter(rx, content) == captures_from(rx, content, 1)

\* Iterator::skip(n)
skip(s, n) == IF n >= Len(s) THEN <<>> ELSE SubSeq(s, n + 1, Len(s))

\* flat_map over Option<Match>: a Some contributes its text, a None nothing.
RECURSIVE flat_map_str(_)
flat_map_str(groups) ==
    IF groups = <<>> THEN <<>>
    ELSE (IF Head(groups) = None THEN <<>> ELSE <<Head(groups)[1]>>)
             \o flat_map_str(Tail(groups))

\* The closure without skip(1): group 0 is emitted as a token too.
captures_tokens_with_group0(captures) == flat_map_str(captures)

\* The closure applied to one Captures value: its groups but group 0.
captures_tokens(captures) == flat_map_str(skip(captures, 1))

\* .map(closure).flatten().collect()
RECURSIVE flatten_captures(_)
flatten_captures(all) ==
    IF all = <<>> THEN <<>>
    ELSE captures_tokens(Head(all)) \o flatten_captures(Tail(all))

\* parse_command ending in unwrap_or_default-like wrapping: no pattern gives
\* Some(empty vector) instead of None.
parse_command_never_none(rx, content) ==
    IF rx = None THEN Some(<<>>)
    ELSE Some(flatten_captures(captures_iter(rx[1], content)))

\* Client::parse_command: Option::map over the configured pattern.
parse_command(rx, content) ==
    IF rx = None THEN None
    ELSE Some(flatten_captures(captures_iter(rx[1], content)))

\* ------------------------------------------------------------------ dispatch client

\* Vec<String>::join(sep)
RECURSIVE join(_, _)
join(v, sep) ==
    IF v = <<>> THEN ""
    ELSE IF Len(v) = 1 THEN v[1]
    ELSE v[1] \o sep \o join(Tail(v), sep)

ServerMessage_url(m) ==
    "/server/" \o ToString(m.server_id) \o "/channel/"
        \o ToString(m.channel_id) \o "/message"

DirectMessage_url(m) == "/direct/" \o ToString(m.channel_id) \o "/message"

\* Command::url with the context written into the format string.
Command_url_fixed_context(c) ==
    "/command/" \o join(c.command, "/") \o "?context=server"

Command_url(c) ==
    "/command/" \o join(c.command, "/") \o "?context=" \o c.context

\* Sendable::url, by payload type.
url(payload) ==
    CASE payload.type = "ServerMessage" -> ServerMessage_url(payload)
      [] payload.type = "DirectMessage" -> DirectMessage_url(payload)
      [] payload.type = "Command" -> Command_url(payload)

\* Client::post: the request for a payload.
post(payload) ==
    [url |-> target_base \o url(payload), body |-> payload]

Command(command, context, message) ==
    [type |-> "Command", command |-> command, context |-> context,
     message |-> message]

\* ------------------------------------------------------------------ handle_event

\* handle_event without the classification: every message taken as a
\* channel message.
has_guild_unchecked(event) == TRUE

\* msg.guild_id.is_some(): the classification of a MessageCreate event.
has_guild(event) == event.guild_id # None

\* What handle_event does with an event up to its await: panic in the
\* conversion, build one request, or nothing.
handle_event(rx, event) ==
    IF event.kind = "MessageCreate" THEN
        IF has_guild(event) THEN
            IF ServerMessage_from_panics(event) THEN [outcome |-> "panic"]
            ELSE
                LET msg == ServerMessage_from(event)
                    command == parse_command(rx, msg.content)
                IN  IF command # None
                        THEN [outcome |-> "post",
                              request |-> post(Command(command[1], "server", msg))]
                        ELSE [outcome |-> "post", request |-> post(msg)]
        ELSE
            LET msg == DirectMessage_from(event)
                command == parse_command(rx, msg.content)
            IN  IF command # None
                    THEN [outcome |-> "post",
                          request |-> post(Command(command[1], "direct", msg))]
                    ELSE [outcome |-> "post", request |-> post(msg)]
    ELSE [outcome |-> "none"]

\* ------------------------------------------------------------------ state

VARIABLES
    command_regex,  \* Client.command_regex: None or Some(pattern)
    alive,          \* the process has not exited
    mainpc,         \* where main's loop stands
    events,         \* the events read from the gateway stream so far
    cache,          \* the indices of the events the cache has applied, in order
    tasks,          \* tasks[n]: the state of the task spawned for event n
    posts,          \* posts[n]: the HTTP requests the task of event n has issued
    completed,      \* the indices of the events whose POST has completed, in order
    content,        \* argument of a direct parse_command call
    parsed,         \* its result
    parsepc         \* "call" before it, "return" after it

vars == <<command_regex, alive, mainpc, events, cache, tasks, posts, completed,
          content, parsed, parsepc>>

loopvars == <<alive, mainpc, events, cache, tasks, posts, completed>>
parsevars == <<content, parsed, parsepc>>

\* All sequences over S of length at most n.
RECURSIVE SeqsUpTo(_, _)
SeqsUpTo(S, n) ==
    IF n = 0 THEN {<<>>}
    ELSE LET shorter == SeqsUpTo(S, n - 1)
         IN  shorter \cup {Append(s, c) : s \in shorter, c \in S}

\* main up to the loop: the client is built from ACCORD_COMMAND_REGEX, the
\* cache is empty, nothing has been read.
Init ==
    /\ command_regex \in Regexes
    /\ alive = TRUE
    /\ mainpc = "next"
    /\ events = <<>>
    /\ cache = <<>>
    /\ tasks = <<>>
    /\ posts = <<>>
    /\ completed = <<>>
    /\ content = <<>>
    /\ parsed = None
    /\ parsepc = "return"

\* ------------------------------------------------------------------ main's loop

\* The loop spawning the task first, the cache update left out.
NextEvent_without_update ==
    /\ alive
    /\ mainpc = "next"
    /\ Len(events) < MaxEvents
    /\ \E e \in GatewayEvents(Len(events) + 1) :
           events' = Append(events, e)
    /\ mainpc' = "spawn"
    /\ UNCHANGED <<command_regex, alive, cache, tasks, posts, completed>>
    /\ UNCHANGED parsevars

\* The loop awaiting the tasks it spawned before it reads the next event.
NextEvent_awaiting_tasks ==
    /\ alive
    /\ mainpc = "next"
    /\ Len(events) < MaxEvents
    /\ \A n \in 1..Len(tasks) : tasks[n] \in {"done", "failed", "panicked"}
    /\ \E e \in GatewayEvents(Len(events) + 1) :
           events' = Append(events, e)
    /\ mainpc' = "update"
    /\ UNCHANGED <<command_regex, alive, cache, tasks, posts, completed>>
    /\ UNCHANGED parsevars

\* events.next().await yields Some(event).
NextEvent ==
    /\ alive
    /\ mainpc = "next"
    /\ Len(events) < MaxEvents
    /\ \E e \in GatewayEvents(Len(events) + 1) :
           events' = Append(events, e)
    /\ mainpc' = "update"
    /\ UNCHANGED <<command_regex, alive, cache, tasks, posts, completed>>
    /\ UNCHANGED parsevars

\* events.next().await yields None: the loop ends and main returns Ok(()).
StreamEnd ==
    /\ alive
    /\ mainpc = "next"
    /\ mainpc' = "returned"
    /\ UNCHANGED <<command_regex, alive, events, cache, tasks, posts, completed>>
    /\ UNCHANGED parsevars

\* The result of cache.update dropped instead of expect()ed.
CacheUpdate_ignoring_error ==
    /\ alive
    /\ mainpc = "update"
    /\ \E ok \in BOOLEAN :
           IF ok
               THEN /\ cache' = Append(cache, Len(events))
                    /\ mainpc' = "spawn"
               ELSE /\ cache' = cache
                    /\ mainpc' = "spawn"
    /\ UNCHANGED <<command_regex, alive, events, tasks, posts, completed>>
    /\ UNCHANGED parsevars

\* cache.update(&event.1).await.expect(..): the update is applied, or it
\* fails and main panics.
CacheUpdate ==
    /\ alive
    /\ mainpc = "update"
    /\ \E ok \in BOOLEAN :
           IF ok
               THEN /\ cache' = Append(cache, Len(events))
                    /\ mainpc' = "spawn"
               ELSE /\ cache' = cache
                    /\ mainpc' = "panicked"
    /\ UNCHANGED <<command_regex, alive, events, tasks, posts, completed>>
    /\ UNCHANGED parsevars

\* tokio::spawn(handle_event(..)): the task exists, the loop goes on.
Spawn ==
    /\ alive
    /\ mainpc = "spawn"
    /\ tasks' = Append(tasks, "spawned")
    /\ posts' = Append(posts, <<>>)
    /\ mainpc' = "next"
    /\ UNCHANGED <<command_regex, alive, events, cache, completed>>
    /\ UNCHANGED parsevars

\* main has returned or panicked: the process exits, whatever its tasks
\* were doing.
ProcessExit ==
    /\ alive
    /\ mainpc \in {"returned", "panicked"}
    /\ alive' = FALSE
    /\ UNCHANGED <<command_regex, mainpc, events, cache, tasks, posts, completed>>
    /\ UNCHANGED parsevars

\* ------------------------------------------------------------------ the tasks

\* The task of event n runs handle_event up to its await.
HandleEvent(n) ==
    /\ alive
    /\ tasks[n] = "spawned"
    /\ LET h == handle_event(command_regex, events[n])
       IN  CASE h.outcome = "post" ->
                    /\ posts' = [posts EXCEPT ![n] = Append(@, h.request)]
                    /\ tasks' = [tasks EXCEPT ![n] = "awaiting"]
             [] h.outcome = "panic" ->
                    /\ posts' = posts
                    /\ tasks' = [tasks EXCEPT ![n] = "panicked"]
             [] OTHER ->
                    /\ posts' = posts
                    /\ tasks' = [tasks EXCEPT ![n] = "done"]
    /\ UNCHANGED <<command_regex, alive, mainpc, events, cache, completed>>
    /\ UNCHANGED parsevars

\* A failed request sent again instead of returned by `?`.
PostResponse_retrying(n) ==
    /\ alive
    /\ tasks[n] = "awaiting"
    /\ \E ok \in BOOLEAN :
           IF ok
               THEN /\ tasks' = [tasks EXCEPT ![n] = "done"]
                    /\ posts' = posts
                    /\ completed' = Append(completed, n)
               ELSE /\ tasks' = tasks
                    /\ posts' = [posts EXCEPT ![n] = Append(@, @[1])]
                    /\ completed' = completed
    /\ UNCHANGED <<command_regex, alive, mainpc, events, cache>>
    /\ UNCHANGED parsevars

\* The awaited request of event n completes: Ok goes on to Ok(()), an error
\* is returned by `?`.
PostResponse(n) ==
    /\ alive
    /\ tasks[n] = "awaiting"
    /\ \E ok \in BOOLEAN :
           tasks' = [tasks EXCEPT ![n] = IF ok THEN "done" ELSE "failed"]
    /\ completed' = Append(completed, n)
    /\ UNCHANGED <<command_regex, alive, mainpc, events, cache, posts>>
    /\ UNCHANGED parsevars

Next ==
    \/ NextEvent
    \/ StreamEnd
    \/ CacheUpdate
    \/ Spawn
    \/ ProcessExit
    \/ \E n \in 1..Len(tasks) : HandleEvent(n)
    \/ \E n \in 1..Len(tasks) : PostResponse(n)

Spec == Init /\ [][Next]_vars

\* ------------------------------------------------------------------ parse_command alone

InitParse ==
    /\ command_regex \in Regexes
    /\ content \in SeqsUpTo(Chars, MaxLen)
    /\ parsed = None
    /\ parsepc = "call"
    /\ alive = TRUE
    /\ mainpc = "next"
    /\ events = <<>>
    /\ cache = <<>>
    /\ tasks = <<>>
    /\ posts = <<>>
    /\ completed = <<>>

ParseCommand ==
    /\ parsepc = "call"
    /\ parsed' = parse_command(command_regex, content)
    /\ parsepc' = "return"
    /\ UNCHANGED <<command_regex, content>>
    /\ UNCHANGED loopvars

NextParse == ParseCommand

SpecParse == InitParse /\ [][NextParse]_vars

\* ------------------------------------------------------------------ what the claims speak of

\* The normalized message a payload carries: itself, or the one a Command wraps.
InnerMessage(payload) ==
    IF payload.type = "Command" THEN payload.message ELSE payload

\* The role ids of a membership record, position by position.
RoleIdsOf(mem) == [k \in 1..Len(mem.roles) |-> mem.roles[k][1]]

\* The path of a plain message for an event, written out from the event.
PlainUrlOf(e) ==
    IF e.guild_id # None
        THEN "/server/" \o ToString(e.guild_id[1]) \o "/channel/"
                 \o ToString(e.channel_id) \o "/message"
        ELSE "/direct/" \o ToString(e.channel_id) \o "/message"

\* t1/t2/../tn, built from the left.
SlashPath(t) ==
    IF Len(t) = 0 THEN ""
    ELSE LET F[k \in 1..Len(t)] ==
                 IF k = 1 THEN t[1] ELSE F[k - 1] \o "/" \o t[k]
         IN  F[Len(t)]

\* The requests issued so far, each named by its event and its position
\* among the requests of that event's task.
Issued ==
    UNION {{<<n, i>> : i \in 1..Len(posts[n])} : n \in 1..Len(posts)}

\* The request q names.
Req(q) == posts[q[1]][q[2]]

\* The number of requests issued so far.
NumIssued == Cardinality(Issued)

\* C1: every normalized message's author.roles is None when the event has no
\* membership record and Some(the record's role ids, in order) when it has one,
\* on the channel-message path and on the direct-message path.
C1_RolesFollowMembership ==
    \A i \in Issued :
        LET e == events[i[1]]
            msg == InnerMessage(Req(i).body)
        IN  msg.author.roles =
                IF e.member = None THEN None ELSE Some(RoleIdsOf(e.member[1]))

\* C2: with a pattern configured, a content the pattern does not match is
\* dispatched as a plain message at its own URL, never as a Command.
C2_NoMatchIsPlainMessage ==
    \A i \in Issued :
        LET e == events[i[1]]
        IN  (command_regex # None
               /\ captures_iter(command_regex[1], e.content) = <<>>)
            => /\ Req(i).body.type # "Command"
               /\ Req(i).url = target_base \o PlainUrlOf(e)

\* The (match, group) pairs that participate, group 0 left out.
Participating(caps) ==
    {q \in (1..Len(caps)) \X (2..3) :
        q[2] <= Len(caps[q[1]]) /\ caps[q[1]][q[2]] # None}

\* The position of a participating pair in match order, then group order.
RankIn(caps, q) ==
    Cardinality({r \in Participating(caps) :
                    r[1] < q[1] \/ (r[1] = q[1] /\ r[2] <= q[2])})

\* C3: when the configured pattern matches at least once, parse_command
\* returns Some(tokens), tokens being the texts of the participating groups
\* other than group 0 in match order then group order and nothing else; with
\* no participating group it is Some(empty sequence).
C3_TokensAreParticipatingGroups ==
    (parsepc = "return" /\ command_regex # None
       /\ captures_iter(command_regex[1], content) # <<>>)
    => LET caps == captures_iter(command_regex[1], content)
       IN  /\ parsed # None
           /\ Len(parsed[1]) = Cardinality(Participating(caps))
           /\ \A q \in Participating(caps) :
                  parsed[1][RankIn(caps, q)] = caps[q[1]][q[2]][1]

C3_Witness ==
    /\ parsepc = "return"
    /\ command_regex # None
    /\ LET caps == captures_iter(command_regex[1], content)
       IN  /\ Len(caps) >= 2
           /\ \E m \in 1..Len(caps) : caps[m][3] = None
           /\ \E m \in 1..Len(caps) : caps[m][3] # None
    /\ parsed # None
    /\ Len(parsed[1]) >= 3

\* C4: with no pattern configured every handled MessageCreate event is posted
\* as a plain message, at /server/S/channel/C/message with a server
\* association and /direct/C/message without, and never as a Command.
C4_NoPatternPlainMessages ==
    command_regex = None =>
        /\ \A i \in Issued :
               /\ Req(i).body.type # "Command"
               /\ Req(i).url = target_base \o PlainUrlOf(events[i[1]])
        /\ \A n \in 1..Len(tasks) :
               (events[n].kind = "MessageCreate"
                  /\ tasks[n] \in {"awaiting", "done", "failed"})
               => posts[n] # <<>>

C4_Witness ==
    /\ command_regex = None
    /\ \E i, j \in Issued :
           /\ Req(i).url = "http://target/direct/3/message"
           /\ Req(j).url = "http://target/server/7/channel/3/message"

\* C5: the request URL is the base followed by /server/S/channel/C/message
\* for a plain channel message, /direct/C/message for a plain direct message
\* and /command/t1/../tn?context=ctx for a command whatever it wraps, ctx
\* being "server" exactly when the event has a server association.
C5_UrlOfPayload ==
    \A i \in Issued :
        LET b == Req(i).body
            e == events[i[1]]
        IN  /\ b.type = "ServerMessage" =>
                   Req(i).url = target_base \o "/server/" \o ToString(b.server_id)
                                      \o "/channel/" \o ToString(b.channel_id)
                                      \o "/message"
            /\ b.type = "DirectMessage" =>
                   Req(i).url = target_base \o "/direct/"
                                      \o ToString(b.channel_id) \o "/message"
            /\ b.type = "Command" =>
                   /\ Req(i).url = target_base \o "/command/"
                                         \o SlashPath(b.command)
                                         \o "?context=" \o b.context
                   /\ b.context \in {"server", "direct"}
                   /\ b.context = "server" <=> e.guild_id # None

C5_Witness ==
    \E i, j \in Issued :
        /\ Req(i).body.type = "Command"
        /\ Req(i).body.message.type = "ServerMessage"
        /\ Req(i).url = "http://target/command/b/a?context=server"
        /\ Req(j).body.type = "Command"
        /\ Req(j).body.message.type = "DirectMessage"
        /\ Req(j).url = "http://target/command/?context=direct"

\* The update of the last event read has failed: the loop is past it and the
\* cache does not hold the event.
CacheFailed == mainpc # "update" /\ Len(cache) < Len(events)

\* C6: when the cache update of an event fails, main panics before the
\* event's task is spawned: no POST is issued for the event, and from then on
\* no event is read, applied to the cache or given a task.
C6_CacheFailureIsFatal ==
    /\ [](CacheFailed =>
            /\ mainpc = "panicked"
            /\ Len(cache) = Len(events) - 1
            /\ Len(tasks) < Len(events)
            /\ \A n \in 1..Len(posts) : posts[n] # <<>> => n < Len(events))
    /\ [][CacheFailed =>
            /\ mainpc' = "panicked"
            /\ events' = events
            /\ cache' = cache
            /\ Len(tasks') = Len(tasks)]_vars

C6_Witness ==
    /\ CacheFailed
    /\ ~alive
    /\ Len(events) = MaxEvents
    /\ events[Len(events)].kind = "MessageCreate"
    /\ NumIssued = Len(events) - 1

\* C7: cache updates are applied one at a time in stream order; the update of
\* event N is complete before the task of event N is spawned and before event
\* N+1 is read, so whenever the task of event N exists the cache has applied
\* events 1..N.
C7_CacheAheadOfTasks ==
    /\ \A k \in 1..Len(cache) : cache[k] = k
    /\ Len(cache) <= Len(events)
    /\ \A n \in 1..Len(tasks) : n <= Len(cache)
    /\ (mainpc = "next" => Len(cache) = Len(events))
    /\ Len(events) <= Len(cache) + 1

C7_Witness ==
    /\ Len(tasks) = MaxEvents
    /\ tasks[MaxEvents] = "awaiting"
    /\ tasks[1] = "spawned"
    /\ Len(cache) = MaxEvents

\* C8: a MessageCreate event whose task ran issued exactly one POST, failed
\* or not; any other event issued none; hence there are never more POSTs than
\* MessageCreate events read.
C8_OnePostPerMessageCreate ==
    /\ Len(posts) = Len(tasks)
    /\ \A n \in 1..Len(posts) : Len(posts[n]) <= 1
    /\ \A i \in Issued : events[i[1]].kind = "MessageCreate"
    /\ \A n \in 1..Len(tasks) :
           /\ (events[n].kind = "MessageCreate"
                 /\ tasks[n] \in {"awaiting", "done", "failed"})
              => Len(posts[n]) = 1
           /\ events[n].kind # "MessageCreate" => tasks[n] \in {"spawned", "done"}
    /\ NumIssued <=
           Cardinality({n \in 1..Len(events) : events[n].kind = "MessageCreate"})

C8_Witness ==
    /\ Len(tasks) = MaxEvents
    /\ \E m, n \in 1..Len(tasks) :
           /\ events[m].kind = "MessageCreate"
           /\ tasks[m] = "failed"
           /\ events[n].kind = "ShardConnected"
           /\ tasks[n] = "done"
    /\ NumIssued = 1

\* C9: the loop does not wait for the tasks and the tasks do not wait for one
\* another: the next event can be read whatever the tasks are doing, and any
\* awaited POST can complete whatever the earlier ones are doing, so the POST
\* of event N+1 may complete before the POST of event N.
C9_NothingWaitsForATask ==
    /\ (alive /\ mainpc = "next" /\ Len(events) < MaxEvents) => ENABLED NextEvent
    /\ \A n \in 1..Len(tasks) :
           (alive /\ tasks[n] = "awaiting") => ENABLED PostResponse(n)

C9_Witness ==
    \E i, j \in 1..Len(completed) :
        /\ i < j
        /\ completed[i] = completed[j] + 1
        /\ events[completed[i]].kind = "MessageCreate"
        /\ events[completed[j]].kind = "MessageCreate"

\* C10: the ServerMessage conversion runs only on events that carry a guild
\* id, so no task panics in it, and an event without a guild id is converted
\* to a DirectMessage.
C10_ClassifiedBeforeConversion ==
    /\ \A n \in 1..Len(tasks) : tasks[n] # "panicked"
    /\ \A i \in Issued :
           LET e == events[i[1]]
               msg == InnerMessage(Req(i).body)
           IN  /\ msg.type = "ServerMessage" <=> e.guild_id # None
               /\ msg.type = "DirectMessage" <=> e.guild_id = None
    /\ \A n \in 1..Len(tasks) :
           (events[n].kind = "MessageCreate" /\ tasks[n] # "spawned")
           => posts[n] # <<>>

C10_Witness ==
    \E i, j \in Issued :
        /\ events[i[1]].guild_id = None
        /\ InnerMessage(Req(i).body).type = "DirectMessage"
        /\ events[j[1]].guild_id # None
        /\ InnerMessage(Req(j).body).type = "ServerMessage"

====
